---- MODULE Spec2Model ----
(***************************************************************************)
(* Model of simpleBackupWithGit: the local backup (code/main.py) and the   *)
(* git publisher (code/github_uploader.py).                                *)
(*                                                                         *)
(* A string is a sequence of one-character strings, so that lower(),       *)
(* strip(), startswith(), substring containment, splitext() and            *)
(* os.path.join() are computed character by character.                     *)
(***************************************************************************)
EXTENDS Integers, Sequences, FiniteSets, TLC

(***************************************************************************)
(* Strings                                                                 *)
(***************************************************************************)

\* str.lower() on one character (the upper-case letters the model uses)
LowerChar(c) ==
  CASE c = "A" -> "a" [] c = "B" -> "b" [] c = "D" -> "d" [] c = "F" -> "f"
    [] c = "M" -> "m" [] c = "P" -> "p" [] c = "S" -> "s" [] c = "T" -> "t"
    [] OTHER -> c

\* str.lower()
Lower(s) == [k \in 1..Len(s) |-> LowerChar(s[k])]

IsSpace(c) == c \in {" ", "\t", "\n"}

RECURSIVE LStrip(_)
LStrip(s) == IF s # <<>> /\ IsSpace(Head(s)) THEN LStrip(Tail(s)) ELSE s

RECURSIVE RStrip(_)
RStrip(s) ==
  IF s # <<>> /\ IsSpace(s[Len(s)]) THEN RStrip(SubSeq(s, 1, Len(s) - 1)) ELSE s

\* str.strip()
Strip(s) == RStrip(LStrip(s))

\* line.startswith(p)
StartsWith(s, p) == Len(p) <= Len(s) /\ SubSeq(s, 1, Len(p)) = p

\* Python's "needle in hay" on strings
Contains(hay, needle) ==
  \E k \in 0..(Len(hay) - Len(needle)) : SubSeq(hay, k + 1, k + Len(needle)) = needle

\* s.lstrip(".")
RECURSIVE LStripDots(_)
LStripDots(s) == IF s # <<>> /\ Head(s) = "." THEN LStripDots(Tail(s)) ELSE s

\* the path separator os.path.join() inserts
Sep == "/"

\* os.path.join(a, b) for a relative b
Join(a, b) == IF a # <<>> /\ a[Len(a)] = Sep THEN a \o b ELSE a \o <<Sep>> \o b

\* index of the last occurrence of c in s, 0 when there is none
LastIndex(s, c) ==
  LET hits == {k \in 1..Len(s) : s[k] = c}
  IN  IF hits = {} THEN 0 ELSE CHOOSE k \in hits : \A j \in hits : j <= k

\* os.path.basename(p)
Basename(p) == SubSeq(p, LastIndex(p, Sep) + 1, Len(p))

\* os.path.splitext(p)[1]: from the last dot of the last component, unless
\* only dots precede it there
SplitExt(p) ==
  LET b == Basename(p)
      d == LastIndex(b, ".")
  IN  IF d = 0 \/ \A k \in 1..d : b[k] = "." THEN <<>> ELSE SubSeq(b, d, Len(b))

(***************************************************************************)
(* code/main.py: constants                                                 *)
(***************************************************************************)

\* SUPPORTED_EXTENSIONS
SUPPORTED_EXTENSIONS ==
  { <<".", "t", "x", "t">>, <<".", "d", "o", "c", "x">>, <<".", "d", "o", "c">>,
    <<".", "p", "p", "t", "x">>, <<".", "p", "p", "t">>, <<".", "m", "d">>,
    <<".", "p", "d", "f">>, <<".", "x", "l", "s", "x">>, <<".", "x", "l", "s">>,
    <<".", "c", "s", "v">>, <<".", "j", "s", "o", "n">>, <<".", "x", "m", "l">> }

\* SIZE_LIMIT = 25 * 1024 * 1024
SIZE_LIMIT == 25 * 1024 * 1024

(***************************************************************************)
(* The source tree main() walks: what os.walk sees.                        *)
(*   s/a.md  s/B.PDF  s/c.exe  s/T/a.md                                    *)
(***************************************************************************)
source_directory == <<"s">>
backup_root == <<"b">>

DirT == <<"s", "/", "T">>

\* one os.walk step: the (dirs, filenames) listed for a directory
Listing(dir) ==
  CASE dir = source_directory ->
         [dirs |-> << <<"T">> >>,
          filenames |-> << <<"a", ".", "m", "d">>, <<"B", ".", "P", "D", "F">>,
                           <<"c", ".", "e", "x", "e">> >>]
    [] dir = DirT ->
         [dirs |-> <<>>, filenames |-> << <<"a", ".", "m", "d">> >>]
    [] OTHER -> [dirs |-> <<>>, filenames |-> <<>>]

FileA  == <<"s", "/", "a", ".", "m", "d">>
FileB  == <<"s", "/", "B", ".", "P", "D", "F">>
FileC  == <<"s", "/", "c", ".", "e", "x", "e">>
FileTA == <<"s", "/", "T", "/", "a", ".", "m", "d">>
AllFiles == {FileA, FileB, FileC, FileTA}

(***************************************************************************)
(* code/main.py: exclusion patterns and discovery                          *)
(***************************************************************************)

\* a text file on disk: whether it exists, and its lines
TextFile(lines) == [exists |-> TRUE, lines |-> lines]
NoFile == [exists |-> FALSE, lines |-> <<>>]

RECURSIVE LoadLines(_)
LoadLines(lines) ==
  IF lines = <<>> THEN {}
  ELSE LET line == Strip(Head(lines))
       IN  (IF line # <<>> /\ ~StartsWith(line, <<"#">>) THEN {Lower(line)} ELSE {})
             \cup LoadLines(Tail(lines))

\* load_exclude_paths
load_exclude_paths(file) == IF ~file.exists THEN {} ELSE LoadLines(file.lines)

\* is_path_excluded without file_path.lower()
is_path_excluded_case_sensitive(file_path, excluded) ==
  \E e \in excluded : Contains(file_path, e)

\* is_path_excluded
is_path_excluded(file_path, excluded) ==
  \E e \in excluded : Contains(Lower(file_path), e)

\* get_file_extension
get_file_extension(file_path) == Lower(SplitExt(file_path))

\* is_supported_file
is_supported_file(file_path) == get_file_extension(file_path) \in SUPPORTED_EXTENSIONS

\* SelectSeq with a two-argument test
RECURSIVE Filter(_, _, _, _)
Filter(names, root, excluded, wantSupported) ==
  IF names = <<>> THEN <<>>
  ELSE LET p == Join(root, Head(names))
           keep == ~is_path_excluded(p, excluded)
                   /\ (wantSupported => is_supported_file(p))
       IN  (IF keep THEN <<p>> ELSE <<>>)
             \o Filter(Tail(names), root, excluded, wantSupported)

\* what traversing one directory can meet: nothing; an OSError of os.scandir,
\* which os.walk ignores (onerror is None) by yielding nothing for the
\* directory; an exception that reaches the loop of find_all_files
WalkOutcomes == {"ok", "scandir_error", "raise"}
WalkAnswers == [{source_directory, DirT} -> WalkOutcomes]
AllReadable == [d \in {source_directory, DirT} |-> "ok"]

\* the loop "for root, dirs, filenames in os.walk(directory)" inside the try:
\* stack holds the directories os.walk still has to list (top-down, dirs pruned
\* in place); the except ends the loop and prints
\* [files, walked: the directories listed, printed: the directories whose
\*  error was printed as "Error finding files"]
RECURSIVE WalkStack(_, _, _, _)
WalkStack(stack, excluded, answers, acc) ==
  IF stack = <<>> THEN acc
  ELSE LET root == Head(stack)
           l == Listing(root)
       IN  CASE answers[root] = "raise" ->
                  [acc EXCEPT !.printed = Append(@, root)]
             [] answers[root] = "scandir_error" ->
                  WalkStack(Tail(stack), excluded, answers, acc)
             [] OTHER ->
                  WalkStack(Filter(l.dirs, root, excluded, FALSE) \o Tail(stack),
                            excluded, answers,
                            [acc EXCEPT !.files = @ \o Filter(l.filenames, root, excluded, TRUE),
                                        !.walked = Append(@, root)])

\* find_all_files
find_all_files(directory, excluded, answers) ==
  WalkStack(<<directory>>, excluded, answers,
            [files |-> <<>>, walked |-> <<>>, printed |-> <<>>])

(***************************************************************************)
(* Dates: datetime.fromtimestamp(...).strftime and date.isocalendar()      *)
(***************************************************************************)

IsLeap(y) == (y % 4 = 0) /\ ((y % 100 # 0) \/ (y % 400 = 0))

DaysInMonth(y, m) ==
  CASE m \in {1, 3, 5, 7, 8, 10, 12} -> 31
    [] m \in {4, 6, 9, 11} -> 30
    [] OTHER -> IF IsLeap(y) THEN 29 ELSE 28

RECURSIVE DaysBeforeMonth(_, _)
DaysBeforeMonth(y, m) ==
  IF m = 1 THEN 0 ELSE DaysBeforeMonth(y, m - 1) + DaysInMonth(y, m - 1)

DaysBeforeYear(y) ==
  (y - 1) * 365 + ((y - 1) \div 4) - ((y - 1) \div 100) + ((y - 1) \div 400)

\* date.toordinal()
Ordinal(d) == DaysBeforeYear(d.year) + DaysBeforeMonth(d.year, d.month) + d.day

\* the ordinal of the Monday that starts ISO week 1 of year y
IsoWeek1Monday(y) ==
  LET firstday == DaysBeforeYear(y) + 1
      firstweekday == (firstday + 6) % 7
      monday == firstday - firstweekday
  IN  IF firstweekday > 3 THEN monday + 7 ELSE monday

\* get_week_number: date.isocalendar()[1]
get_week_number(d) ==
  LET today == Ordinal(d)
      week == (today - IsoWeek1Monday(d.year)) \div 7
  IN  IF week < 0 THEN ((today - IsoWeek1Monday(d.year - 1)) \div 7) + 1
      ELSE IF week >= 52 /\ today >= IsoWeek1Monday(d.year + 1) THEN 1
      ELSE week + 1

Digit(n) ==
  CASE n = 0 -> "0" [] n = 1 -> "1" [] n = 2 -> "2" [] n = 3 -> "3" [] n = 4 -> "4"
    [] n = 5 -> "5" [] n = 6 -> "6" [] n = 7 -> "7" [] n = 8 -> "8" [] OTHER -> "9"

\* f"{n:02d}" and strftime("%m")
Pad2(n) == <<Digit((n \div 10) % 10), Digit(n % 10)>>

\* strftime("%Y")
Year4(y) ==
  <<Digit((y \div 1000) % 10), Digit((y \div 100) % 10), Digit((y \div 10) % 10),
    Digit(y % 10)>>

\* the creation dates the model's files can have
Date20240105 == [year |-> 2024, month |-> 1, day |-> 5]
Date20240312 == [year |-> 2024, month |-> 3, day |-> 12]
Date20241230 == [year |-> 2024, month |-> 12, day |-> 30]

\* what os.path.getctime can report for a file
Ctimes(f) ==
  CASE f = FileTA -> {Date20240105, Date20241230}
    [] f = FileB -> {Date20240312}
    [] OTHER -> {Date20240105}

\* a 30 MiB file, above the limit
BigSize == 30 * 1024 * 1024

\* what os.path.getsize can report for a file
Sizes == {SIZE_LIMIT, SIZE_LIMIT + 1, BigSize}

\* get_file_size's answer when os.path.getsize raises
SizeError == -1
\* Python's None where a path is expected: falsy, like the empty string
None == <<>>

(***************************************************************************)
(* code/main.py: placement                                                 *)
(***************************************************************************)

\* round(file_size / (1024 * 1024), 2), in hundredths of a MB, ties to even
\* (size * 100 / 2^20 = size * 25 / 2^18)
SizeMb(file_size) ==
  LET n == file_size * 25
      q == n \div 262144
      r == n % 262144
  IN  IF 2 * r > 262144 \/ (2 * r = 262144 /\ q % 2 = 1) THEN q + 1 ELSE q

\* the entry create_backup_hierarchy appends for an oversized file
ExclusionEntry(file_path, file_size) ==
  [file |-> file_path, size_mb |-> SizeMb(file_size),
   destination |-> "Would be placed in year/month/week hierarchy"]

\* dest_dir built from os.path.splitext(file_path)[1], not lower-cased
DestDir_raw_extension(root, file_path, file_date) ==
  Join(Join(Join(Join(root, Year4(file_date.year)), Pad2(file_date.month)),
            <<"W">> \o Pad2(get_week_number(file_date))),
       LStripDots(SplitExt(file_path)))

\* dest_dir of create_backup_hierarchy
DestDir(root, file_path, file_date) ==
  Join(Join(Join(Join(root, Year4(file_date.year)), Pad2(file_date.month)),
            <<"W">> \o Pad2(get_week_number(file_date))),
       LStripDots(get_file_extension(file_path)))

\* create_backup_hierarchy without the "return None" of the size branch
create_backup_hierarchy_falls_through(root, file_path, io) ==
  LET dest_dir == DestDir(root, file_path, io.ctime)
      appended == IF io.size > SIZE_LIMIT
                    THEN <<ExclusionEntry(file_path, io.size)>> ELSE <<>>
  IN  IF ~io.ctime_ok \/ ~io.mkdir_ok
        THEN [dest |-> None, appended |-> appended, made |-> {}]
        ELSE [dest |-> Join(dest_dir, Basename(file_path)), appended |-> appended,
              made |-> {dest_dir}]

\* create_backup_hierarchy with "file_size >= SIZE_LIMIT"
create_backup_hierarchy_at_limit(root, file_path, io) ==
  IF io.size >= SIZE_LIMIT
    THEN [dest |-> None, appended |-> <<ExclusionEntry(file_path, io.size)>>,
          made |-> {}]
  ELSE IF ~io.ctime_ok \/ ~io.mkdir_ok
    THEN [dest |-> None, appended |-> <<>>, made |-> {}]
  ELSE LET dest_dir == DestDir(root, file_path, io.ctime)
       IN  [dest |-> Join(dest_dir, Basename(file_path)), appended |-> <<>>,
            made |-> {dest_dir}]

\* create_backup_hierarchy, given what the file system answers (io.size: the
\* result of get_file_size; io.ctime_ok, io.ctime: os.path.getctime;
\* io.mkdir_ok: os.makedirs).
\* Returns the destination (or None), the entries appended to
\* excluded_size_files and the directories created.
create_backup_hierarchy(root, file_path, io) ==
  IF io.size > SIZE_LIMIT
    THEN [dest |-> None, appended |-> <<ExclusionEntry(file_path, io.size)>>,
          made |-> {}]
  ELSE IF ~io.ctime_ok \/ ~io.mkdir_ok
    THEN [dest |-> None, appended |-> <<>>, made |-> {}]
  ELSE LET dest_dir == DestDir(root, file_path, io.ctime)
       IN  [dest |-> Join(dest_dir, Basename(file_path)), appended |-> <<>>,
            made |-> {dest_dir}]

\* whether an I/O error occurred while placing the file
PlacementIoError(io) ==
  \/ io.size = SizeError
  \/ io.size <= SIZE_LIMIT /\ (~io.ctime_ok \/ ~io.mkdir_ok)

(***************************************************************************)
(* code/main.py: the exclusion log                                         *)
(***************************************************************************)

\* one line of backup_excluded.log
Line(kind, idx, file, size_mb) ==
  [kind |-> kind, idx |-> idx, file |-> file, size_mb |-> size_mb]

Plain(kind) == Line(kind, 0, <<>>, 0)

\* the four lines written for entry number idx
EntryLines(idx, file_info) ==
  << Line("File", idx, file_info.file, 0), Line("Size", 0, <<>>, file_info.size_mb),
     Plain("Would be located"), Plain("") >>

\* enumerate(excluded_files, start)
RECURSIVE EnumerateEntries(_, _)
EnumerateEntries(excluded_files, start) ==
  IF excluded_files = <<>> THEN <<>>
  ELSE EntryLines(start, Head(excluded_files))
         \o EnumerateEntries(Tail(excluded_files), start + 1)

\* the text with enumerate(excluded_files) counting from 0
LogText_from_zero(excluded_files) ==
  << Plain("banner"), Plain("BACKUP EXCLUDED FILES LOG"), Plain("banner"), Plain(""),
     Plain("The following files were EXCLUDED"), Plain("") >>
  \o (IF excluded_files = <<>>
        THEN << Plain("No files were excluded.") >>
        ELSE << Line("Total excluded files", Len(excluded_files), <<>>, 0), Plain("") >>
               \o EnumerateEntries(excluded_files, 0))
  \o << Plain("banner"), Plain("To fix this, consider using git-lfs") >>

\* the text log_excluded_files writes
LogText(excluded_files) ==
  << Plain("banner"), Plain("BACKUP EXCLUDED FILES LOG"), Plain("banner"), Plain(""),
     Plain("The following files were EXCLUDED"), Plain("") >>
  \o (IF excluded_files = <<>>
        THEN << Plain("No files were excluded.") >>
        ELSE << Line("Total excluded files", Len(excluded_files), <<>>, 0), Plain("") >>
               \o EnumerateEntries(excluded_files, 1))
  \o << Plain("banner"), Plain("To fix this, consider using git-lfs") >>

\* log_excluded_files with open(log_file, "a")
log_excluded_files_append(excluded_files, old, outcome) ==
  CASE outcome = "ok" -> TextFile(old.lines \o LogText(excluded_files))
    [] outcome = "write_failed" -> old
    [] OTHER -> old

\* log_excluded_files: open(log_file, "w") and the writes; outcome "ok",
\* "open_failed" (nothing touched) or "write_failed" (truncated, text lost)
log_excluded_files(excluded_files, old, outcome) ==
  CASE outcome = "ok" -> TextFile(LogText(excluded_files))
    [] outcome = "write_failed" -> TextFile(<<>>)
    [] OTHER -> old

LogOutcomes == {"ok", "open_failed", "write_failed"}

(***************************************************************************)
(* Bounds and inputs                                                       *)
(***************************************************************************)

\* most lines the exclusion file holds
MaxExcludeLines == 1

\* the lines the exclusion file can hold
ExcludeLineChoices ==
  { <<" ", "\n">>, <<"#", "T", "\n">>, <<" ", "T", " ", "\n">>, <<"P", "D", "F">> }

RECURSIVE SeqsUpTo(_, _)
SeqsUpTo(S, n) ==
  IF n = 0 THEN {<<>>}
  ELSE LET shorter == SeqsUpTo(S, n - 1)
       IN  shorter \cup {Append(q, x) : q \in shorter, x \in S}

ExcludeFiles == {NoFile} \cup {TextFile(ls) : ls \in SeqsUpTo(ExcludeLineChoices, MaxExcludeLines)}

\* the log an earlier run can have left behind
PriorLogs ==
  {NoFile, TextFile(LogText(<<>>)), TextFile(LogText(<<ExclusionEntry(FileB, BigSize)>>))}

Range(q) == {q[k] : k \in DOMAIN q}

(***************************************************************************)
(* State                                                                   *)
(***************************************************************************)
VARIABLES
  pc,                   \* where main() is
  exclude_file,         \* exlude_paths.txt
  excluded_paths,       \* main: excluded_paths
  files_to_backup,      \* main: files_to_backup
  i,                    \* main: position of the for loop in files_to_backup
  excluded_size_files,  \* main: excluded_size_files
  backed_up_count,      \* main: backed_up_count
  backup_tree,          \* files under backup_root: set of <<dest, source>>
  dest_dirs,            \* directories made under backup_root
  log_file,             \* backup_excluded.log
  old_log,              \* backup_excluded.log as it was when main() started
  log_writes,           \* how often this run opened the log for writing
  placed,               \* what each loop iteration of this run did
  walked,               \* the directories os.walk listed in this run
  walk_answers,         \* what traversing each directory of the source tree meets
  walk_printed,         \* the directories whose traversal error find_all_files printed
  up_pc,                \* where upload_backup_to_github is ("crashed": an
                        \* exception left it)
  config_file,          \* backup_config.txt
  config,               \* upload_backup_to_github: config
  key_exists,           \* whether a file is at SSH_KEY_PATH
  os_name,              \* os.name
  GIT_SSH_COMMAND,      \* os.environ["GIT_SSH_COMMAND"] of this process
  chmod_calls,          \* os.chmod calls of this upload
  git_dir,              \* whether backup_root/.git exists
  remote_origin,        \* the URL of remote "origin" (None: not registered)
  pending,              \* whether the working tree has uncommitted changes
  unpushed,             \* whether a local commit is not on the remote
  git_log,              \* the git commands this upload ran, with their exit
  commit_message,       \* upload_backup_to_github: commit_message
  up_result,            \* what upload_backup_to_github returned
  uploads,              \* how many uploads were started
  v_pc,                 \* where validate_setup.main() is
  v_i,                  \* validate_setup.main: position of the for loop in checks
  results,              \* validate_setup.main: results
  check_calls,          \* how often each check function was called
  check_outcomes,       \* what each call of a check function did, in order
  exit_code,            \* the status validate_setup.py exited with (None: running)
  ui_pc,                \* where the console (ui.py) is
  ui_back,              \* the menu a "Press Enter..." of the console returns to
  ui_input,             \* what the operator did last at the console
  ui_message,           \* the result message on the console's screen
  ui_mark,              \* uploads, as it was when the console started its child
  ui_exit               \* the status ui.py exited with (None: running)

main_vars ==
  <<pc, exclude_file, excluded_paths, files_to_backup, i, excluded_size_files,
    backed_up_count, backup_tree, dest_dirs, log_file, old_log, log_writes, placed>>

upload_vars ==
  <<up_pc, config_file, config, key_exists, os_name, GIT_SSH_COMMAND, chmod_calls,
    git_dir, remote_origin, pending, unpushed, git_log, commit_message, up_result,
    uploads>>

walk_vars == <<walked, walk_answers, walk_printed>>

validate_vars == <<v_pc, v_i, results, check_calls, check_outcomes, exit_code>>

console_vars == <<ui_pc, ui_back, ui_input, ui_message, ui_mark, ui_exit>>

\* what main(), an upload, the validator and the console leave alone
outside_main == <<upload_vars, validate_vars, console_vars>>
outside_upload == <<main_vars, walk_vars, validate_vars, console_vars>>
outside_validate == <<main_vars, walk_vars, upload_vars, console_vars>>
outside_console == <<main_vars, walk_vars, validate_vars>>

vars == <<main_vars, walk_vars, upload_vars, validate_vars, console_vars>>

InitMain ==
  /\ pc = "start"
  /\ exclude_file \in ExcludeFiles
  /\ excluded_paths = {}
  /\ files_to_backup = <<>>
  /\ i = 1
  /\ excluded_size_files = <<>>
  /\ backed_up_count = 0
  /\ backup_tree = {}
  /\ dest_dirs = {}
  /\ log_file \in PriorLogs
  /\ old_log = log_file
  /\ log_writes = 0
  /\ placed = <<>>
  /\ walked = <<>>
  /\ walk_answers \in WalkAnswers
  /\ walk_printed = <<>>

(***************************************************************************)
(* code/main.py: main()                                                    *)
(***************************************************************************)

\* excluded_paths = load_exclude_paths("exlude_paths.txt")
LoadExclude ==
  /\ pc = "start"
  /\ excluded_paths' = load_exclude_paths(exclude_file)
  /\ pc' = "find"
  /\ UNCHANGED <<exclude_file, files_to_backup, i, excluded_size_files, backed_up_count,
                 backup_tree, dest_dirs, log_file, old_log, log_writes, placed, walk_vars>>
  /\ UNCHANGED outside_main

\* files_to_backup = find_all_files(...); excluded_size_files = []; backed_up_count = 0
FindFiles ==
  /\ pc = "find"
  /\ LET r == find_all_files(source_directory, excluded_paths, walk_answers)
     IN  /\ files_to_backup' = r.files
         /\ walked' = r.walked
         /\ walk_printed' = r.printed
  /\ excluded_size_files' = <<>>
  /\ backed_up_count' = 0
  /\ i' = 1
  /\ pc' = "loop"
  /\ UNCHANGED <<exclude_file, excluded_paths, backup_tree, dest_dirs, log_file, old_log,
                 log_writes, placed, walk_answers>>
  /\ UNCHANGED outside_main

\* a copy that leaves a destination that exists as it is
Copy2_keeps_existing(tree, file_path, dest_path) ==
  IF \E e \in tree : e[1] = dest_path THEN tree ELSE tree \cup {<<dest_path, file_path>>}

\* shutil.copy2(file_path, dest_path): the destination now holds the source
Copy2(tree, file_path, dest_path) ==
  {e \in tree : e[1] # dest_path} \cup {<<dest_path, file_path>>}

\* the body of "if dest_path:" in main's loop
CopyStep(r, file_path, copy_ok) ==
  IF r.dest # None /\ copy_ok
    THEN [tree |-> Copy2(backup_tree, file_path, r.dest), count |-> backed_up_count + 1,
          copied |-> TRUE]
    ELSE [tree |-> backup_tree, count |-> backed_up_count, copied |-> FALSE]

\* what the file system can answer while one file is placed
IoAnswers(file_path) ==
  [size : Sizes \cup {SizeError}, ctime_ok : BOOLEAN, ctime : Ctimes(file_path),
   mkdir_ok : BOOLEAN]

\* one iteration of "for file_path in files_to_backup"
BackupFile ==
  /\ pc = "loop"
  /\ i <= Len(files_to_backup)
  /\ \E io \in IoAnswers(files_to_backup[i]), copy_ok \in BOOLEAN :
       LET file_path == files_to_backup[i]
           r == create_backup_hierarchy(backup_root, file_path, io)
           c == CopyStep(r, file_path, copy_ok)
       IN  /\ excluded_size_files' = excluded_size_files \o r.appended
           /\ dest_dirs' = dest_dirs \cup r.made
           /\ backup_tree' = c.tree
           /\ backed_up_count' = c.count
           /\ placed' = Append(placed,
                [file |-> file_path, size |-> io.size, dest |-> r.dest,
                 made |-> r.made, copied |-> c.copied,
                 place_error |-> PlacementIoError(io),
                 copy_error |-> r.dest # None /\ ~copy_ok])
  /\ i' = i + 1
  /\ UNCHANGED <<pc, exclude_file, excluded_paths, files_to_backup, log_file, old_log,
                 log_writes, walk_vars>>
  /\ UNCHANGED outside_main

\* the loop is over: log_excluded_files(excluded_size_files, log_file)
LogExcluded ==
  /\ pc = "loop"
  /\ i > Len(files_to_backup)
  /\ \E outcome \in LogOutcomes :
       /\ log_file' = log_excluded_files(excluded_size_files, log_file, outcome)
       /\ pc' = IF outcome = "ok" THEN "logged" ELSE "log_error"
  /\ log_writes' = log_writes + 1
  /\ UNCHANGED <<exclude_file, excluded_paths, files_to_backup, i, excluded_size_files,
                 backed_up_count, backup_tree, dest_dirs, old_log, placed, walk_vars>>
  /\ UNCHANGED outside_main

NextMain == LoadExclude \/ FindFiles \/ BackupFile \/ LogExcluded

(***************************************************************************)
(* code/github_uploader.py                                                 *)
(* A config string is a sequence of tokens (a key name, "=", " ", "#", a   *)
(* value); strip, startswith and split work on them as on characters.      *)
(***************************************************************************)

\* index of the first occurrence of c in s, 0 when there is none
FirstIndex(s, c) ==
  LET hits == {k \in 1..Len(s) : s[k] = c}
  IN  IF hits = {} THEN 0 ELSE CHOOSE k \in hits : \A j \in hits : k <= j

\* the config dictionary load_config starts from
DefaultConfig ==
  [GITHUB_REPO_URL |-> None, SSH_KEY_PATH |-> None,
   COMMIT_MESSAGE |-> <<"Auto backup - ", "{", "date", "}">>]

\* one line of load_config's loop: key, value = line.split("=", 1)
ConfigLine(cfg, raw) ==
  LET line == Strip(raw)
      eq == FirstIndex(line, "=")
      key == Strip(SubSeq(line, 1, eq - 1))
      value == Strip(SubSeq(line, eq + 1, Len(line)))
  IN  IF line = <<>> \/ StartsWith(line, <<"#">>) \/ eq = 0 THEN cfg
      ELSE IF key = <<"GITHUB_REPO_URL">> THEN [cfg EXCEPT !.GITHUB_REPO_URL = value]
      ELSE IF key = <<"SSH_KEY_PATH">> THEN [cfg EXCEPT !.SSH_KEY_PATH = value]
      ELSE IF key = <<"COMMIT_MESSAGE">> THEN [cfg EXCEPT !.COMMIT_MESSAGE = value]
      ELSE cfg

RECURSIVE ConfigLines(_, _)
ConfigLines(cfg, lines) ==
  IF lines = <<>> THEN cfg ELSE ConfigLines(ConfigLine(cfg, Head(lines)), Tail(lines))

\* load_config
load_config(file) ==
  IF ~file.exists THEN DefaultConfig ELSE ConfigLines(DefaultConfig, file.lines)

UrlLine == <<"GITHUB_REPO_URL", "=", "git@github.com:u/r.git", "\n">>
KeyLine == <<"SSH_KEY_PATH", " ", "=", " ", "/home/u/.ssh/id", "\n">>
MsgLine == <<"COMMIT_MESSAGE", "=", "Backup", " ", "{", "date", "}", "\n">>
\* COMMIT_MESSAGE lines with another placeholder, an unbalanced brace, doubled braces
MsgLineUser == <<"COMMIT_MESSAGE", "=", "Backup", " ", "{", "user", "}", "\n">>
MsgLineOpen == <<"COMMIT_MESSAGE", "=", "Backup", " ", "{", "\n">>
MsgLineDoubled == <<"COMMIT_MESSAGE", "=", "{", "{", "date", "}", "}", "\n">>
\* the URL line as the shipped template has it
UrlLineTemplate ==
  <<"GITHUB_REPO_URL", "=", "git@github.com:", "your-username", "/r.git", "\n">>

\* the backup_config.txt files of the model
ConfigFiles ==
  { NoFile,
    TextFile(<<UrlLine, KeyLine, MsgLine>>),
    TextFile(<<UrlLine, KeyLine>>),
    TextFile(<<UrlLine, KeyLine, MsgLineUser>>),
    TextFile(<<UrlLine, KeyLine, MsgLineOpen>>),
    TextFile(<<UrlLine, KeyLine, MsgLineDoubled>>),
    TextFile(<<UrlLineTemplate, KeyLine, MsgLine>>),
    TextFile(<<KeyLine, MsgLine>>),
    TextFile(<<UrlLine, KeyLine, <<"GITHUB_REPO_URL", "=", " ", "\n">> >>),
    TextFile(<<UrlLine, <<"#">> \o KeyLine>>),
    TextFile(<<UrlLine, <<"SSH_KEY_PATH", "=", "\n">> >>) }

\* setup_ssh_environment that sets the variable before it looks for the key
setup_ssh_environment_env_first(ssh_key_path, exists, name, chmod_ok, env) ==
  LET set == <<"ssh -i \"">> \o ssh_key_path \o <<"\"">>
  IN  IF ~exists THEN [ok |-> FALSE, env |-> set, chmods |-> 0]
      ELSE IF name # "nt" /\ ~chmod_ok THEN [ok |-> FALSE, env |-> set, chmods |-> 1]
      ELSE [ok |-> TRUE, env |-> set, chmods |-> IF name # "nt" THEN 1 ELSE 0]

\* setup_ssh_environment: [ok, env: the new GIT_SSH_COMMAND, chmods]
setup_ssh_environment(ssh_key_path, exists, name, chmod_ok, env) ==
  IF ~exists THEN [ok |-> FALSE, env |-> env, chmods |-> 0]
  ELSE IF name # "nt" /\ ~chmod_ok THEN [ok |-> FALSE, env |-> env, chmods |-> 1]
  ELSE [ok |-> TRUE, env |-> <<"ssh -i \"">> \o ssh_key_path \o <<"\"">>,
        chmods |-> IF name # "nt" THEN 1 ELSE 0]

\* one subprocess.run of git: the command, whether it exited 0, its stdout
CmdOut(name, ok, stdout) == [cmd |-> name, ok |-> ok, stdout |-> stdout]
Cmd(name, ok) == CmdOut(name, ok, <<>>)

\* initialize_git_repo without the test for an existing .git
initialize_git_repo_always(has_git_dir, remote, repo_url, run) ==
  IF ~run.makedirs
    THEN [result |-> FALSE, git_dir |-> has_git_dir, remote |-> remote, log |-> <<>>]
  ELSE IF ~run.init
    THEN [result |-> FALSE, git_dir |-> has_git_dir, remote |-> remote,
          log |-> <<Cmd("init", FALSE)>>]
  ELSE IF ~run.remote \/ remote # None
    THEN [result |-> FALSE, git_dir |-> TRUE, remote |-> remote,
          log |-> <<Cmd("init", TRUE), Cmd("remote add", FALSE)>>]
  ELSE [result |-> TRUE, git_dir |-> TRUE, remote |-> repo_url,
        log |-> <<Cmd("init", TRUE), Cmd("remote add", TRUE)>>]

\* initialize_git_repo; run.makedirs, run.init, run.remote: whether each call
\* succeeds. [result, git_dir, remote, log: the git commands run]
initialize_git_repo(has_git_dir, remote, repo_url, run) ==
  IF has_git_dir
    THEN [result |-> TRUE, git_dir |-> TRUE, remote |-> remote, log |-> <<>>]
  ELSE IF ~run.makedirs
    THEN [result |-> FALSE, git_dir |-> FALSE, remote |-> remote, log |-> <<>>]
  ELSE IF ~run.init
    THEN [result |-> FALSE, git_dir |-> FALSE, remote |-> remote,
          log |-> <<Cmd("init", FALSE)>>]
  ELSE IF ~run.remote
    THEN [result |-> FALSE, git_dir |-> TRUE, remote |-> remote,
          log |-> <<Cmd("init", TRUE), Cmd("remote add", FALSE)>>]
  ELSE [result |-> TRUE, git_dir |-> TRUE, remote |-> repo_url,
        log |-> <<Cmd("init", TRUE), Cmd("remote add", TRUE)>>]

\* datetime.now().strftime("%Y-%m-%d %H:%M:%S")
Now == <<"2024-01-05 10:00:00">>

\* str.format(date=...) on a template of tokens, braces being tokens of their
\* own: "{{" and "}}" give a literal brace, "{name}" is replaced by the keyword
\* argument of that name
\* [error: "" or the exception raised, text]
RECURSIVE Format(_, _)
Format(template, date) ==
  LET ok(text) == [error |-> "", text |-> text]
      raise(e) == [error |-> e, text |-> <<>>]
      then(text, rest) ==
        LET r == Format(rest, date)
        IN  IF r.error # "" THEN r ELSE ok(text \o r.text)
      from(k) == SubSeq(template, k, Len(template))
  IN  IF template = <<>> THEN ok(<<>>)
      ELSE IF Head(template) = "{"
        THEN IF Len(template) >= 2 /\ template[2] = "{" THEN then(<<"{">>, from(3))
             ELSE LET close == FirstIndex(template, "}")
                      field == SubSeq(template, 2, close - 1)
                  IN  IF close = 0 THEN raise("ValueError")
                      ELSE IF field = <<>> THEN raise("IndexError")
                      ELSE IF field = <<"date">> THEN then(date, from(close + 1))
                      ELSE raise("KeyError")
      ELSE IF Head(template) = "}"
        THEN IF Len(template) >= 2 /\ template[2] = "}" THEN then(<<"}">>, from(3))
             ELSE raise("ValueError")
      ELSE then(<<Head(template)>>, Tail(template))

\* config["COMMIT_MESSAGE"].format(date=...)
FormatMessage(template) == Format(template, Now)

\* stdout of git status --porcelain: one line per pending change, and nothing
\* when it fails (the diagnostic goes to stderr)
StatusStdout(status_ok, has_pending) ==
  IF status_ok /\ has_pending THEN <<"?? ", "2024/", "\n">> ELSE <<>>

\* commit_and_push without the "No changes to commit" return
commit_and_push_always_commits(has_pending, has_unpushed, remote, run) ==
  LET out(result, p, u, log) ==
        [result |-> result, pending |-> p, unpushed |-> u, log |-> log]
      l1 == <<Cmd("config user.email", run.email)>>
      l2 == l1 \o <<Cmd("config user.name", run.name)>>
      l3 == l2 \o <<Cmd("add", run.add)>>
      stdout == StatusStdout(run.status, has_pending)
      l4 == l3 \o <<CmdOut("status", run.status, stdout)>>
      committed == run.commit /\ has_pending
      l5 == l4 \o <<Cmd("commit", committed)>>
      pushed == run.push /\ remote # None
      l6 == l5 \o <<Cmd("push", pushed)>>
  IN  IF ~run.email THEN out(FALSE, has_pending, has_unpushed, l1)
      ELSE IF ~run.name THEN out(FALSE, has_pending, has_unpushed, l2)
      ELSE IF ~run.add THEN out(FALSE, has_pending, has_unpushed, l3)
      ELSE IF ~committed THEN out(FALSE, has_pending, has_unpushed, l5)
      ELSE IF ~pushed THEN out(FALSE, FALSE, TRUE, l6)
      ELSE out(TRUE, FALSE, FALSE, l6)

\* commit_and_push; run.email, run.name, run.add, run.status, run.commit,
\* run.push: whether each git call exits 0.
\* [result, pending, unpushed, log: the git commands run]
commit_and_push(has_pending, has_unpushed, remote, run) ==
  LET out(result, p, u, log) ==
        [result |-> result, pending |-> p, unpushed |-> u, log |-> log]
      l1 == <<Cmd("config user.email", run.email)>>
      l2 == l1 \o <<Cmd("config user.name", run.name)>>
      l3 == l2 \o <<Cmd("add", run.add)>>
      stdout == StatusStdout(run.status, has_pending)
      l4 == l3 \o <<CmdOut("status", run.status, stdout)>>
      l5 == l4 \o <<Cmd("commit", run.commit)>>
      pushed == run.push /\ remote # None
      l6 == l5 \o <<Cmd("push", pushed)>>
  IN  IF ~run.email THEN out(FALSE, has_pending, has_unpushed, l1)
      ELSE IF ~run.name THEN out(FALSE, has_pending, has_unpushed, l2)
      ELSE IF ~run.add THEN out(FALSE, has_pending, has_unpushed, l3)
      ELSE IF Strip(stdout) = <<>>
        THEN out(TRUE, has_pending, has_unpushed, l4)
      ELSE IF ~run.commit THEN out(FALSE, has_pending, has_unpushed, l5)
      ELSE IF ~pushed THEN out(FALSE, FALSE, TRUE, l6)
      ELSE out(TRUE, FALSE, FALSE, l6)

\* most uploads started in one behaviour
MaxUploads == 2

InitUpload ==
  /\ up_pc = "idle"
  /\ config_file \in ConfigFiles
  /\ config = DefaultConfig
  /\ key_exists \in BOOLEAN
  /\ os_name \in {"nt", "posix"}
  /\ GIT_SSH_COMMAND = None
  /\ chmod_calls = 0
  /\ git_dir = FALSE
  /\ remote_origin = None
  /\ pending \in BOOLEAN
  /\ unpushed = FALSE
  /\ git_log = <<>>
  /\ commit_message = <<>>
  /\ up_result = FALSE
  /\ uploads = 0

\* upload_backup_to_github is called in a new process: config = load_config(...)
StartUpload ==
  /\ up_pc \in {"idle", "done", "crashed"}
  /\ uploads < MaxUploads
  /\ uploads' = uploads + 1
  /\ config' = load_config(config_file)
  /\ GIT_SSH_COMMAND' = None
  /\ chmod_calls' = 0
  /\ git_log' = <<>>
  /\ commit_message' = <<>>
  /\ up_result' = FALSE
  /\ up_pc' = "check"
  /\ UNCHANGED <<config_file, key_exists, os_name, git_dir, remote_origin, pending,
                 unpushed>>
  /\ UNCHANGED outside_upload

\* "if not config[...]: return False", twice
CheckConfig ==
  /\ up_pc = "check"
  /\ IF config.GITHUB_REPO_URL = None \/ config.SSH_KEY_PATH = None
       THEN up_pc' = "done" /\ up_result' = FALSE
       ELSE up_pc' = "ssh" /\ UNCHANGED up_result
  /\ UNCHANGED <<config_file, config, key_exists, os_name, GIT_SSH_COMMAND, chmod_calls,
                 git_dir, remote_origin, pending, unpushed, git_log, commit_message,
                 uploads>>
  /\ UNCHANGED outside_upload

\* "if not setup_ssh_environment(config["SSH_KEY_PATH"]): return False"
SetupSsh ==
  /\ up_pc = "ssh"
  /\ \E chmod_ok \in BOOLEAN :
       LET r == setup_ssh_environment(config.SSH_KEY_PATH, key_exists, os_name, chmod_ok,
                                      GIT_SSH_COMMAND)
       IN  /\ GIT_SSH_COMMAND' = r.env
           /\ chmod_calls' = chmod_calls + r.chmods
           /\ IF r.ok THEN up_pc' = "init" /\ UNCHANGED up_result
                      ELSE up_pc' = "done" /\ up_result' = FALSE
  /\ UNCHANGED <<config_file, config, key_exists, os_name, git_dir, remote_origin,
                 pending, unpushed, git_log, commit_message, uploads>>
  /\ UNCHANGED outside_upload

\* "if not initialize_git_repo(backup_path, config["GITHUB_REPO_URL"]): return False"
InitializeRepo ==
  /\ up_pc = "init"
  /\ \E run \in [makedirs : BOOLEAN, init : BOOLEAN, remote : BOOLEAN] :
       LET r == initialize_git_repo(git_dir, remote_origin, config.GITHUB_REPO_URL, run)
       IN  /\ git_dir' = r.git_dir
           /\ remote_origin' = r.remote
           /\ git_log' = git_log \o r.log
           /\ IF r.result THEN up_pc' = "format" /\ UNCHANGED up_result
                          ELSE up_pc' = "done" /\ up_result' = FALSE
  /\ UNCHANGED <<config_file, config, key_exists, os_name, GIT_SSH_COMMAND, chmod_calls,
                 pending, unpushed, commit_message, uploads>>
  /\ UNCHANGED outside_upload

\* commit_message = config["COMMIT_MESSAGE"].format(date=...)
CreateCommitMessage ==
  /\ up_pc = "format"
  /\ LET r == FormatMessage(config.COMMIT_MESSAGE)
     IN  IF r.error # ""
           THEN up_pc' = "crashed" /\ UNCHANGED commit_message
           ELSE up_pc' = "commit" /\ commit_message' = r.text
  /\ UNCHANGED <<config_file, config, key_exists, os_name, GIT_SSH_COMMAND, chmod_calls,
                 git_dir, remote_origin, pending, unpushed, git_log, up_result, uploads>>
  /\ UNCHANGED outside_upload

GitRuns ==
  [email : BOOLEAN, name : BOOLEAN, add : BOOLEAN, status : BOOLEAN, commit : BOOLEAN,
   push : BOOLEAN]

\* "if commit_and_push(backup_path, commit_message): return True else: return False"
CommitAndPush ==
  /\ up_pc = "commit"
  /\ \E run \in GitRuns :
       LET r == commit_and_push(pending, unpushed, remote_origin, run)
       IN  /\ pending' = r.pending
           /\ unpushed' = r.unpushed
           /\ git_log' = git_log \o r.log
           /\ up_result' = r.result
  /\ up_pc' = "done"
  /\ UNCHANGED <<config_file, config, key_exists, os_name, GIT_SSH_COMMAND, chmod_calls,
                 git_dir, remote_origin, commit_message, uploads>>
  /\ UNCHANGED outside_upload

\* between two uploads a backup run puts new files under backup_root
NewBackupFiles ==
  /\ up_pc \in {"done", "crashed"}
  /\ ~pending
  /\ pending' = TRUE
  /\ UNCHANGED <<up_pc, config_file, config, key_exists, os_name, GIT_SSH_COMMAND,
                 chmod_calls, git_dir, remote_origin, unpushed, git_log, commit_message,
                 up_result, uploads>>
  /\ UNCHANGED outside_upload

NextUpload ==
  \/ StartUpload \/ CheckConfig \/ SetupSsh \/ InitializeRepo \/ CreateCommitMessage
  \/ CommitAndPush \/ NewBackupFiles

(***************************************************************************)
(* validate_setup.py: main()                                               *)
(***************************************************************************)

\* main: the names in checks, in order
checks ==
  <<"Python Version", "Git Installation", "SSH Availability", "Configuration File",
    "SSH Key File", "Exclusion File", "Main Script", "GitHub Connectivity">>

\* what a call check_func() can do: return True, return False, raise an Exception
CheckOutcomes == {"true", "false", "raise"}

\* "try: results[name] = check_func() except Exception: results[name] = False"
StoreResult(res, name, outcome) ==
  [n \in DOMAIN res \cup {name} |-> IF n = name THEN outcome = "true" ELSE res[n]]

\* main's return with "passed > 0" for "passed == total"
ReturnCode_some_passed(res) ==
  LET passed == Cardinality({n \in DOMAIN res : res[n]})
  IN  IF passed > 0 THEN 0 ELSE 1

\* passed = sum(1 for v in results.values() if v); total = len(results);
\* return 0 if passed == total else 1
ReturnCode(res) ==
  LET passed == Cardinality({n \in DOMAIN res : res[n]})
      total == Cardinality(DOMAIN res)
  IN  IF passed = total THEN 0 ELSE 1

InitValidate ==
  /\ v_pc = "checks"
  /\ v_i = 1
  /\ results = <<>>
  /\ check_calls = [n \in Range(checks) |-> 0]
  /\ check_outcomes = <<>>
  /\ exit_code = None

\* one iteration of "for name, check_func in checks"
RunCheck ==
  /\ v_pc = "checks"
  /\ v_i <= Len(checks)
  /\ \E outcome \in CheckOutcomes :
       /\ results' = StoreResult(results, checks[v_i], outcome)
       /\ check_outcomes' = Append(check_outcomes, outcome)
  /\ check_calls' = [check_calls EXCEPT ![checks[v_i]] = @ + 1]
  /\ v_i' = v_i + 1
  /\ UNCHANGED <<v_pc, exit_code>>
  /\ UNCHANGED outside_validate

\* the loop is over: the summary, and sys.exit(main())
Summary ==
  /\ v_pc = "checks"
  /\ v_i > Len(checks)
  /\ exit_code' = <<ReturnCode(results)>>
  /\ v_pc' = "done"
  /\ UNCHANGED <<v_i, results, check_calls, check_outcomes>>
  /\ UNCHANGED outside_validate

NextValidate == RunCheck \/ Summary

(***************************************************************************)
(* ui.py: BackupControlCenter                                              *)
(* What the operator types is a sequence of characters; Interrupt is a     *)
(* Ctrl-C (KeyboardInterrupt) instead of a line.                           *)
(***************************************************************************)

Interrupt == <<"^C">>
Enter == <<>>

\* prompt: [none: whether it returned None, text]
prompt(typed) ==
  IF typed = Interrupt THEN [none |-> TRUE, text |-> <<>>]
  ELSE [none |-> FALSE, text |-> Strip(typed)]

\* confirm: response = self.prompt(...).lower(); return response in ["y", "yes"]
\* [raised: "" or the exception, value]
confirm(typed) ==
  LET response == prompt(typed)
  IN  IF response.none THEN [raised |-> "AttributeError", value |-> FALSE]
      ELSE [raised |-> "",
            value |-> Lower(response.text) \in {<<"y">>, <<"y", "e", "s">>}]

\* "your-username" in content or "your_username" in content, content lower-cased
HasPlaceholder(file) ==
  \E k \in DOMAIN file.lines : \E j \in DOMAIN file.lines[k] :
    Lower(file.lines[k])[j] \in {"your-username", "your_username"}

\* check_config
check_config(cfg_file, excl_file) ==
  LET issues ==
        (IF ~cfg_file.exists THEN {"backup_config.txt not found"}
         ELSE IF HasPlaceholder(cfg_file) THEN {"backup_config.txt has placeholders"}
         ELSE {})
        \cup (IF ~excl_file.exists THEN {"exlude_paths.txt not found"} ELSE {})
  IN  issues = {}

\* the exit status of "python github_uploader.py": its __main__ calls
\* upload_backup_to_github and drops what it returns
UploaderExitStatus(where) == IF where = "crashed" THEN 1 ELSE 0

\* "if result.returncode == 0", in upload_github and in run_backup
UploadMessage(returncode) ==
  IF returncode = 0 THEN "Upload successful!" ELSE "Upload failed"
BackupMessage(returncode) ==
  IF returncode = 0 THEN "Backup completed successfully!" ELSE "Backup failed"

\* what the operator can type at a menu, at a yes/no question, at "Press Enter..."
MenuKeys ==
  {<<"1">>, <<"2">>, <<"3">>, <<"4">>, <<"5">>, <<"6">>, <<"7">>, <<" ", "4">>, <<"x">>,
   Interrupt}
Answers == {<<"y">>, <<"Y", "e", "s">>, <<"n", "o">>, Enter, Interrupt}
EnterKeys == {Enter, Interrupt}

InitConsole ==
  /\ ui_pc = "menu"
  /\ ui_back = "menu"
  /\ ui_input = Enter
  /\ ui_message = ""
  /\ ui_mark = 0
  /\ ui_exit = None

\* the console shows msg and waits at input("Press Enter...")
WaitEnter(msg, back) ==
  /\ ui_pc' = "enter"
  /\ ui_message' = msg
  /\ ui_back' = back
  /\ UNCHANGED <<ui_mark, ui_exit>>

\* the console goes on to the state next, the screen cleared
GoTo(next) ==
  /\ ui_pc' = next
  /\ ui_message' = ""
  /\ UNCHANGED <<ui_back, ui_mark, ui_exit>>

\* run()'s "except KeyboardInterrupt: print("Exiting..."); sys.exit(0)"
Exiting ==
  /\ ui_pc' = "exited"
  /\ ui_message' = "Exiting..."
  /\ ui_exit' = <<0>>
  /\ UNCHANGED <<ui_back, ui_mark>>

\* an exception other than KeyboardInterrupt leaves run(): traceback, status 1
Traceback(e) ==
  /\ ui_pc' = "crashed"
  /\ ui_message' = e
  /\ ui_exit' = <<1>>
  /\ UNCHANGED <<ui_back, ui_mark>>

\* one pass of main_menu's loop, up to the next input
MainMenu ==
  /\ ui_pc = "menu"
  /\ \E typed \in MenuKeys, source_ok \in BOOLEAN, root_exists \in BOOLEAN,
        script_exists \in BOOLEAN :
       LET choice == prompt(typed)
           is(c) == ~choice.none /\ choice.text = <<c>>
       IN  /\ ui_input' = typed
           /\ IF is("1")
                THEN IF ~check_config(config_file, exclude_file)
                       THEN WaitEnter("Configuration Issues", "menu")
                     ELSE IF ~source_ok THEN WaitEnter("Source directory not found", "menu")
                     ELSE GoTo("confirm_backup")
              ELSE IF is("2") THEN WaitEnter("BACKUP STATUS", "menu")
              ELSE IF is("3") THEN WaitEnter("EXCLUDED FILES", "menu")
              ELSE IF is("4")
                THEN IF ~root_exists THEN WaitEnter("No backups to upload.", "menu")
                     ELSE IF ~check_config(config_file, exclude_file)
                       THEN WaitEnter("Configuration Issues", "menu")
                     ELSE GoTo("confirm_upload")
              ELSE IF is("5") THEN GoTo("settings")
              ELSE IF is("6")
                THEN IF ~script_exists THEN WaitEnter("Validation script not found", "menu")
                     ELSE GoTo("validating")
              ELSE IF is("7")
                THEN /\ ui_pc' = "exited" /\ ui_message' = "Goodbye!" /\ ui_exit' = <<0>>
                     /\ UNCHANGED <<ui_back, ui_mark>>
              ELSE WaitEnter("Invalid choice", "menu")
  /\ UNCHANGED upload_vars
  /\ UNCHANGED outside_console

\* input("Press Enter...") at the end of a handler
PressEnter ==
  /\ ui_pc = "enter"
  /\ \E typed \in EnterKeys :
       /\ ui_input' = typed
       /\ IF typed = Interrupt THEN Exiting ELSE GoTo(ui_back)
  /\ UNCHANGED upload_vars
  /\ UNCHANGED outside_console

\* run_backup: "if not self.confirm("Start backup")"
ConfirmBackup ==
  /\ ui_pc = "confirm_backup"
  /\ \E typed \in Answers :
       LET c == confirm(typed)
       IN  /\ ui_input' = typed
           /\ IF c.raised # "" THEN Traceback(c.raised)
              ELSE IF c.value THEN GoTo("backup_running")
              ELSE WaitEnter("Cancelled.", "menu")
  /\ UNCHANGED upload_vars
  /\ UNCHANGED outside_console

\* run_backup: subprocess.run([sys.executable, "main.py"]) and what follows.
\* main.py ends with main(), which returns nothing: its exit status is 0 unless
\* an exception leaves main(); returned: with new files under backup_root or
\* without
RunBackupChild ==
  /\ ui_pc = "backup_running"
  /\ \E outcome \in {"returned", "raised", "spawn_error", "interrupt"}, new_files \in BOOLEAN :
       /\ ui_input' = IF outcome = "interrupt" THEN Interrupt ELSE ui_input
       /\ pending' = IF outcome = "returned" /\ new_files THEN TRUE ELSE pending
       /\ CASE outcome = "interrupt" -> Exiting
            [] outcome = "spawn_error" -> WaitEnter("Error running backup", "menu")
            [] outcome = "returned" -> WaitEnter(BackupMessage(0), "menu")
            [] OTHER -> WaitEnter(BackupMessage(1), "menu")
  /\ UNCHANGED <<up_pc, config_file, config, key_exists, os_name, GIT_SSH_COMMAND,
                 chmod_calls, git_dir, remote_origin, unpushed, git_log, commit_message,
                 up_result, uploads>>
  /\ UNCHANGED outside_console

\* upload_github: "if not self.confirm("Upload to GitHub")"
ConfirmUpload ==
  /\ ui_pc = "confirm_upload"
  /\ uploads < MaxUploads
  /\ \E typed \in Answers :
       LET c == confirm(typed)
       IN  /\ ui_input' = typed
           /\ IF c.raised # "" THEN Traceback(c.raised)
              ELSE IF c.value
                THEN /\ ui_pc' = "uploading" /\ ui_message' = "" /\ ui_mark' = uploads
                     /\ UNCHANGED <<ui_back, ui_exit>>
              ELSE WaitEnter("Cancelled.", "menu")
  /\ UNCHANGED upload_vars
  /\ UNCHANGED outside_console

\* upload_github: the child "python github_uploader.py" runs
\* upload_backup_to_github, step by step
UploadChild ==
  /\ ui_pc = "uploading"
  /\ IF uploads = ui_mark THEN StartUpload
     ELSE \/ CheckConfig \/ SetupSsh \/ InitializeRepo \/ CreateCommitMessage
          \/ CommitAndPush

\* upload_github: subprocess.run returns, "if result.returncode == 0"
UploadReturns ==
  /\ ui_pc = "uploading"
  /\ uploads > ui_mark
  /\ up_pc \in {"done", "crashed"}
  /\ WaitEnter(UploadMessage(UploaderExitStatus(up_pc)), "menu")
  /\ UNCHANGED ui_input
  /\ UNCHANGED upload_vars
  /\ UNCHANGED outside_console

\* upload_github: subprocess.run does not start the child (an Exception), or a
\* Ctrl-C arrives while the child runs
UploadBroken ==
  /\ ui_pc = "uploading"
  /\ \E outcome \in {"spawn_error", "interrupt"} :
       IF outcome = "interrupt"
         THEN ui_input' = Interrupt /\ Exiting
         ELSE uploads = ui_mark /\ UNCHANGED ui_input /\ WaitEnter("Error", "menu")
  /\ UNCHANGED upload_vars
  /\ UNCHANGED outside_console

\* one pass of settings_menu's loop, up to the next input
SettingsMenu ==
  /\ ui_pc = "settings"
  /\ \E typed \in {<<"1">>, <<"2">>, <<"3">>, <<"4">>, <<"x">>, Interrupt},
        file_exists \in BOOLEAN :
       LET choice == prompt(typed)
       IN  /\ ui_input' = typed
           /\ IF ~choice.none /\ choice.text \in {<<"1">>, <<"2">>, <<"3">>}
                THEN IF ~file_exists THEN WaitEnter("File not found", "settings")
                     ELSE GoTo("confirm_edit")
              ELSE IF ~choice.none /\ choice.text = <<"4">> THEN GoTo("menu")
              ELSE WaitEnter("Invalid choice", "settings")
  /\ UNCHANGED upload_vars
  /\ UNCHANGED outside_console

\* edit_file: "if self.confirm("Open in editor")"
ConfirmEdit ==
  /\ ui_pc = "confirm_edit"
  /\ \E typed \in Answers, open_ok \in BOOLEAN :
       LET c == confirm(typed)
       IN  /\ ui_input' = typed
           /\ IF c.raised # "" THEN Traceback(c.raised)
              ELSE IF ~c.value THEN WaitEnter("", "settings")
              ELSE IF open_ok THEN GoTo("editor")
              ELSE WaitEnter("Error opening editor", "settings")
  /\ UNCHANGED upload_vars
  /\ UNCHANGED outside_console

\* edit_file: input("Close editor when done, then press Enter here...")
CloseEditor ==
  /\ ui_pc = "editor"
  /\ \E typed \in EnterKeys :
       /\ ui_input' = typed
       /\ IF typed = Interrupt THEN Exiting ELSE WaitEnter("Opened in default editor.", "settings")
  /\ UNCHANGED upload_vars
  /\ UNCHANGED outside_console

\* validate: subprocess.run([sys.executable, self.validator_script]); what the
\* child returns is not looked at
ValidateChild ==
  /\ ui_pc = "validating"
  /\ \E outcome \in {"returned", "spawn_error", "interrupt"} :
       /\ ui_input' = IF outcome = "interrupt" THEN Interrupt ELSE ui_input
       /\ CASE outcome = "interrupt" -> Exiting
            [] outcome = "spawn_error" -> WaitEnter("Error running validation", "menu")
            [] OTHER -> WaitEnter("", "menu")
  /\ UNCHANGED upload_vars
  /\ UNCHANGED outside_console

NextConsole ==
  \/ MainMenu \/ PressEnter \/ ConfirmBackup \/ RunBackupChild \/ ConfirmUpload
  \/ UploadChild \/ UploadReturns \/ UploadBroken \/ SettingsMenu \/ ConfirmEdit
  \/ CloseEditor \/ ValidateChild

(***************************************************************************)
(* Specifications                                                          *)
(***************************************************************************)

\* no upload is made
NoUpload ==
  /\ InitUpload
  /\ config_file = NoFile /\ key_exists = FALSE /\ os_name = "posix" /\ pending = FALSE

\* no backup is made
NoBackup ==
  /\ InitMain
  /\ exclude_file = NoFile /\ log_file = NoFile /\ walk_answers = AllReadable

\* one run of main(), up to its question about the upload
Init ==
  /\ InitMain
  /\ walk_answers = AllReadable
  /\ NoUpload
  /\ InitValidate
  /\ InitConsole

Next == NextMain

Spec == Init /\ [][Next]_vars

\* one run of main() over a source tree whose directories can fail to be
\* traversed
InitWalk ==
  /\ InitMain
  /\ log_file = NoFile
  /\ NoUpload
  /\ InitValidate
  /\ InitConsole

SpecWalk == InitWalk /\ [][Next]_vars

\* uploads of an existing backup, one after the other
InitUploads ==
  /\ InitUpload
  /\ NoBackup
  /\ InitValidate
  /\ InitConsole

SpecUpload == InitUploads /\ [][NextUpload]_vars

\* one run of validate_setup.py
InitValidator ==
  /\ InitValidate
  /\ NoBackup
  /\ NoUpload
  /\ InitConsole

SpecValidate == InitValidator /\ [][NextValidate]_vars

\* one session at the console, its uploads run as child processes
InitSession ==
  /\ InitConsole
  /\ InitUpload
  /\ InitMain
  /\ exclude_file \in {NoFile, TextFile(<<>>)} /\ log_file = NoFile
  /\ walk_answers = AllReadable
  /\ InitValidate

SpecConsole == InitSession /\ [][NextConsole]_vars

(***************************************************************************)
(* Properties of main()                                                    *)
(***************************************************************************)

\* the for loop of main() has processed every discovered file
LoopDone == pc \in {"logged", "log_error"} \/ (pc = "loop" /\ i > Len(files_to_backup))

\* how often the loop copied f, and how often the exclusion report names it
Copies(f) == Cardinality({k \in DOMAIN placed : placed[k].file = f /\ placed[k].copied})
Entries(f) ==
  Cardinality({k \in DOMAIN excluded_size_files : excluded_size_files[k].file = f})

\* no I/O error occurred while f was placed and copied
NoIoError(f) ==
  \A k \in DOMAIN placed :
    placed[k].file = f => ~placed[k].place_error /\ ~placed[k].copy_error

\* C1: when the loop of main() is over, every discovered file that met no I/O
\* error was either copied once, to the one destination computed for it, and
\* is not in the exclusion report, or is in the report exactly once and was
\* not copied.
C1_CopiedOrExcluded ==
  LoopDone =>
    \A n \in DOMAIN files_to_backup :
      LET f == files_to_backup[n]
          dests == {placed[k].dest : k \in {j \in DOMAIN placed : placed[j].file = f}}
      IN  NoIoError(f) =>
            \/ /\ Copies(f) = 1 /\ Entries(f) = 0
               /\ Cardinality(dests) = 1 /\ None \notin dests
            \/ /\ Copies(f) = 0 /\ Entries(f) = 1
               /\ dests = {None}
               /\ \A e \in backup_tree : e[2] # f

\* a finished run that copied one file and excluded another
C1_Witness ==
  /\ LoopDone
  /\ \E f, g \in Range(files_to_backup) :
       /\ NoIoError(f) /\ Copies(f) = 1 /\ Entries(f) = 0
       /\ NoIoError(g) /\ Copies(g) = 0 /\ Entries(g) = 1

\* C2: a file whose size is read as more than SIZE_LIMIT (26,214,400) gets no
\* destination, exactly one entry in the exclusion report, no directory, and
\* is never copied; a file of exactly SIZE_LIMIT bytes gets no entry, and gets
\* a destination unless reading its timestamp or making its directory fails.
C2_SizeLimit ==
  \A k \in DOMAIN placed :
    LET r == placed[k] IN
      /\ r.size > SIZE_LIMIT =>
           /\ r.dest = None /\ r.made = {} /\ ~r.copied
           /\ Entries(r.file) = 1
           /\ \A e \in backup_tree : e[2] # r.file
      /\ r.size = SIZE_LIMIT =>
           /\ Entries(r.file) = 0
           /\ ~r.place_error => r.dest # None

\* one file one byte over the limit was excluded, one at the limit was copied
C2_Witness ==
  /\ \E k \in DOMAIN placed :
       placed[k].size = SIZE_LIMIT + 1 /\ placed[k].dest = None /\ Entries(placed[k].file) = 1
  /\ \E k \in DOMAIN placed :
       placed[k].size = SIZE_LIMIT /\ placed[k].dest # None /\ placed[k].copied

\* path.split(os.sep)
RECURSIVE SplitPath(_)
SplitPath(p) ==
  LET k == FirstIndex(p, Sep)
  IN  IF k = 0 THEN <<p>>
      ELSE <<SubSeq(p, 1, k - 1)>> \o SplitPath(SubSeq(p, k + 1, Len(p)))

IsDigits(s, n) ==
  Len(s) = n /\ \A k \in 1..Len(s) : s[k] \in {"0", "1", "2", "3", "4", "5", "6", "7", "8", "9"}

\* dest is root/YYYY/MM/Wnn/<ext>/<basename of file_path>
HasHierarchyForm(dest, file_path) ==
  LET c == SplitPath(dest)
  IN  /\ Len(c) = 6
      /\ c[1] = backup_root
      /\ IsDigits(c[2], 4) /\ IsDigits(c[3], 2)
      /\ Len(c[4]) = 3 /\ c[4][1] = "W" /\ IsDigits(Tail(c[4]), 2)
      /\ c[6] = Basename(file_path)

ExtSegment(dest) == SplitPath(dest)[5]

\* every supported, non-excluded file of the tree is discovered exactly once
DiscoveredOnce ==
  pc \notin {"start", "find"} =>
    \A f \in AllFiles :
      (Lower(SplitExt(f)) \in SUPPORTED_EXTENSIONS
         /\ \A e \in excluded_paths : ~Contains(Lower(f), e))
      => Cardinality({n \in DOMAIN files_to_backup : files_to_backup[n] = f}) = 1

\* C3 as stated, for a run without I/O errors: a supported file of at most
\* SIZE_LIMIT bytes is discovered once and gets one destination
\* root/YYYY/MM/Wnn/ext/basename whose ext segment is the source file's
\* extension without the leading dot.
C3_ExtSegmentIsSourceExtension ==
  /\ DiscoveredOnce
  /\ (\A k \in DOMAIN placed : ~placed[k].place_error /\ ~placed[k].copy_error) =>
       \A k \in DOMAIN placed :
         LET r == placed[k] IN
           r.size <= SIZE_LIMIT =>
             /\ r.dest # None
             /\ HasHierarchyForm(r.dest, r.file)
             /\ ExtSegment(r.dest) = LStripDots(SplitExt(r.file))

\* C3, amended: a supported, non-excluded file is discovered once, and when
\* its size is at most SIZE_LIMIT and placing it meets no I/O error it gets one
\* destination root/YYYY/MM/Wnn/ext/basename whose ext segment is the source
\* file's extension in lower case, without the leading dot.
C3_ExtSegmentIsLowercasedExtension ==
  /\ DiscoveredOnce
  /\ \A k \in DOMAIN placed :
       LET r == placed[k] IN
         /\ (r.size <= SIZE_LIMIT /\ ~r.place_error) => r.dest # None
         /\ r.dest # None =>
              /\ HasHierarchyForm(r.dest, r.file)
              /\ ExtSegment(r.dest) = LStripDots(Lower(SplitExt(r.file)))

\* B.PDF was placed under .../pdf/B.PDF
C3_Witness ==
  \E k \in DOMAIN placed :
    /\ placed[k].file = FileB /\ placed[k].size = SIZE_LIMIT /\ placed[k].dest # None
    /\ ExtSegment(placed[k].dest) = <<"p", "d", "f">>
    /\ SplitExt(placed[k].file) = <<".", "P", "D", "F">>

\* the exclusion substrings the exclusion file configures, as written there
ConfiguredPatterns ==
  {Strip(exclude_file.lines[k]) : k \in DOMAIN exclude_file.lines}
    \ ({<<>>} \cup {q \in {Strip(exclude_file.lines[k]) : k \in DOMAIN exclude_file.lines} :
                      StartsWith(q, <<"#">>)})

\* C4: a path whose lower-cased form contains a configured exclusion
\* substring, in whatever case the exclusion file writes it, is not in the
\* result of find_all_files, and a directory whose path matches is not walked.
C4_ExcludedNeverFound ==
  pc \notin {"start", "find"} =>
    \A pat \in ConfiguredPatterns :
      /\ \A f \in AllFiles :
           Contains(Lower(f), Lower(pat)) => f \notin Range(files_to_backup)
      /\ \A d \in {source_directory, DirT} :
           (d # source_directory /\ Contains(Lower(d), Lower(pat))) => d \notin Range(walked)

\* the pattern " T " pruned the directory s/T and its a.md, not s/a.md
C4_Witness ==
  /\ pc = "loop"
  /\ <<"T">> \in ConfiguredPatterns
  /\ FileTA \notin Range(files_to_backup)
  /\ DirT \notin Range(walked)
  /\ FileA \in Range(files_to_backup)

\* the lines of a log of one kind
LinesOf(file, kind) == SelectSeq(file.lines, LAMBDA l : l.kind = kind)

\* C9: the log written for an empty list holds the line "No files were
\* excluded." and no entry; the log written for N >= 1 entries holds exactly N
\* numbered entries, numbered 1..N in list order, and the total N.
C9_LogEntries ==
  pc = "logged" =>
    LET files == LinesOf(log_file, "File")
        sizes == LinesOf(log_file, "Size")
        totals == LinesOf(log_file, "Total excluded files")
        nofiles == LinesOf(log_file, "No files were excluded.")
        n == Len(excluded_size_files)
    IN  IF n = 0
          THEN Len(nofiles) = 1 /\ files = <<>> /\ totals = <<>>
          ELSE /\ nofiles = <<>>
               /\ Len(totals) = 1 /\ totals[1].idx = n
               /\ Len(files) = n /\ Len(sizes) = n
               /\ \A k \in 1..n :
                    /\ files[k].idx = k
                    /\ files[k].file = excluded_size_files[k].file
                    /\ sizes[k].size_mb = excluded_size_files[k].size_mb

\* a log with three numbered entries was written
C9_Witness ==
  /\ pc = "logged"
  /\ Len(excluded_size_files) = 3
  /\ Len(LinesOf(log_file, "File")) = 3

\* the files the entries of a log name, in order
LoggedFiles(file) ==
  LET ls == LinesOf(file, "File") IN [k \in 1..Len(ls) |-> ls[k].file]

\* C10: the log is opened for writing once per run, after the last file was
\* processed, and until then holds what the earlier run left; once written,
\* it holds the entries of this run, in order, and nothing of the earlier log.
C10_LogOverwritten ==
  /\ log_writes <= 1
  /\ log_writes = 0 => log_file = old_log
  /\ log_writes = 1 => Len(placed) = Len(files_to_backup) /\ pc \in {"logged", "log_error"}
  /\ pc = "logged" =>
       /\ log_writes = 1
       /\ LoggedFiles(log_file) =
            [k \in 1..Len(excluded_size_files) |-> excluded_size_files[k].file]
       /\ Len(LinesOf(log_file, "banner")) = 3

\* the earlier log named B.PDF; this run excluded only other files, and its
\* log does not name B.PDF
C10_Witness ==
  /\ pc = "logged"
  /\ FileB \in Range(LoggedFiles(old_log))
  /\ FileB \notin Range(LoggedFiles(log_file))
  /\ LoggedFiles(log_file) # <<>>

(***************************************************************************)
(* Properties of the git publisher                                         *)
(***************************************************************************)

Ran(name) == \E k \in DOMAIN git_log : git_log[k].cmd = name

\* C5: when git status prints no pending change after staging,
\* commit_and_push returns success and runs neither git commit nor git push.
C5_NoChangesNoCommit ==
  (up_pc = "done"
     /\ \E k \in DOMAIN git_log :
          git_log[k].cmd = "status" /\ Strip(git_log[k].stdout) = <<>>)
  => up_result = TRUE /\ ~Ran("commit") /\ ~Ran("push")

\* an upload of an unchanged tree ended after a successful git status
C5_Witness ==
  /\ up_pc = "done" /\ up_result = TRUE /\ ~pending
  /\ git_log # <<>>
  /\ git_log[Len(git_log)] = CmdOut("status", TRUE, <<>>)

\* C6: a git command that exits non-zero is the last one the upload runs, and
\* the upload returns failure.
C6_NonZeroExitFails ==
  \A k \in DOMAIN git_log :
    ~git_log[k].ok => k = Len(git_log) /\ (up_pc = "done" => up_result = FALSE)

\* C7: with GITHUB_REPO_URL or SSH_KEY_PATH missing or empty in the config, or
\* no file at the key path, the upload returns failure, GIT_SSH_COMMAND is not
\* set, no chmod is done and no git command is run.
C7_ConfigErrorNoSideEffect ==
  (up_pc = "done"
     /\ (load_config(config_file).GITHUB_REPO_URL = <<>>
           \/ load_config(config_file).SSH_KEY_PATH = <<>>
           \/ ~key_exists))
  => /\ up_result = FALSE
     /\ GIT_SSH_COMMAND = None
     /\ chmod_calls = 0
     /\ git_log = <<>>
     /\ ~git_dir /\ remote_origin = None /\ ~unpushed

\* an upload with a complete config and no key file has returned
C7_Witness ==
  /\ up_pc = "done" /\ up_result = FALSE
  /\ config.GITHUB_REPO_URL # None /\ config.SSH_KEY_PATH # None /\ ~key_exists

\* C8: with a .git directory at the backup root initialize_git_repo runs no
\* git command, changes nothing and returns success; and a call that returns
\* success leaves a .git directory, so the next call is of that kind.
C8_InitIdempotent ==
  [][ /\ (up_pc = "init" /\ git_dir) =>
           /\ up_pc' = "format"
           /\ git_log' = git_log
           /\ git_dir' /\ remote_origin' = remote_origin
           /\ UNCHANGED <<pending, unpushed, GIT_SSH_COMMAND, chmod_calls, config>>
      /\ (up_pc = "init" /\ up_pc' = "format") => git_dir' ]_vars

\* a second upload passed initialize_git_repo without running git
C8_Witness ==
  up_pc = "format" /\ uploads = 2 /\ git_dir /\ remote_origin # None /\ git_log = <<>>

(***************************************************************************)
(* Properties of validate_setup.main()                                     *)
(***************************************************************************)

\* C11: when validate_setup.main() has returned, its return value is 0 exactly
\* when every check returned True, and 1 otherwise (so also when a check raised
\* an exception); every check was called exactly once, in the order of checks,
\* whatever the earlier checks did.
C11_ZeroIffAllChecksPass ==
  v_pc = "done" =>
    /\ exit_code \in {<<0>>, <<1>>}
    /\ exit_code = <<0>> <=> \A k \in DOMAIN check_outcomes : check_outcomes[k] = "true"
    /\ Len(check_outcomes) = Len(checks)
    /\ \A n \in Range(checks) : check_calls[n] = 1
    /\ \A k \in DOMAIN checks : results[checks[k]] = (check_outcomes[k] = "true")

\* the first check failed, a later one raised, the last one passed, and main()
\* returned 1 after calling the last one
C11_Witness ==
  /\ v_pc = "done"
  /\ check_outcomes[1] = "false"
  /\ check_outcomes[2] = "raise"
  /\ check_outcomes[Len(checks)] = "true"
  /\ check_calls[checks[Len(checks)]] = 1
  /\ exit_code = <<1>>

(***************************************************************************)
(* Properties of main(): failures and collisions                           *)
(***************************************************************************)

\* C12: a failure while one file is placed or copied (its size cannot be read,
\* its timestamp cannot be read, its directory cannot be made, the copy fails)
\* does not abort the batch: once main() is past the loop every discovered
\* file was processed and the exclusion log was opened for writing once; and
\* a file that met such a failure is not counted as backed up.
C12_FailureSkipsOnlyThatFile ==
  /\ \A k \in DOMAIN placed :
       (placed[k].place_error \/ placed[k].copy_error) => ~placed[k].copied
  /\ backed_up_count = Cardinality({k \in DOMAIN placed : placed[k].copied})
  /\ pc \in {"logged", "log_error"} =>
       /\ Len(placed) = Len(files_to_backup)
       /\ \A k \in DOMAIN placed : placed[k].file = files_to_backup[k]
       /\ log_writes = 1

\* two iterations of this run copied distinct source files to one destination
SameDestination(j, k) ==
  /\ j < k
  /\ placed[j].file # placed[k].file
  /\ Basename(placed[j].file) = Basename(placed[k].file)
  /\ placed[j].copied /\ placed[k].copied
  /\ placed[j].dest = placed[k].dest

Dirname(p) == SubSeq(p, 1, LastIndex(p, Sep) - 1)

\* the walk comes to directory d: d is the source directory, or the walk came
\* to its parent, listed it, and did not prune d
RECURSIVE Reached(_)
Reached(d) ==
  \/ d = source_directory
  \/ /\ Len(d) > Len(source_directory)
     /\ Reached(Dirname(d))
     /\ walk_answers[Dirname(d)] = "ok"
     /\ ~is_path_excluded(d, excluded_paths)

\* C15: an error raised while find_all_files traverses one directory is caught
\* for that directory only and logged, and the walk goes on with the other
\* directories: every supported, non-excluded file of a directory that the
\* walk comes to and that can be read is in the result.
C15_TraversalErrorPerDirectory ==
  pc \notin {"start", "find"} =>
    /\ \A d \in DOMAIN walk_answers :
         (Reached(d) /\ walk_answers[d] # "ok") => d \in Range(walk_printed)
    /\ \A f \in AllFiles :
         (/\ is_supported_file(f)
          /\ ~is_path_excluded(f, excluded_paths)
          /\ Reached(Dirname(f))
          /\ walk_answers[Dirname(f)] = "ok")
         => f \in Range(files_to_backup)

(***************************************************************************)
(* Properties of repeated uploads                                          *)
(***************************************************************************)

\* C16: over any sequence of upload runs, when upload_backup_to_github has
\* returned success no local commit is left unpushed; a commit whose push
\* failed in an earlier run has been pushed by the time a later run reports
\* success, also when that later run had nothing new to commit.
C16_SuccessMeansPushed ==
  (up_pc = "done" /\ up_result) => ~unpushed

\* C17: over any sequence of calls, when initialize_git_repo has returned
\* success the repository at the backup root exists and has the remote origin
\* registered with the configured URL, also when an earlier call ran git init
\* successfully and failed at git remote add.
C17_InitSuccessHasOrigin ==
  up_pc \in {"format", "commit"} =>
    /\ git_dir
    /\ remote_origin = config.GITHUB_REPO_URL

\* C18: upload_backup_to_github always ends by returning a boolean and lets no
\* exception escape, whatever backup_config.txt holds: a COMMIT_MESSAGE with a
\* brace placeholder other than {date}, or with an unbalanced brace, gives a
\* commit message or a reported failure, not a crash.
C18_NoExceptionEscapes ==
  up_pc # "crashed"

(***************************************************************************)
(* Properties of the console                                               *)
(***************************************************************************)

\* C13: a keyboard interrupt at the console ends the whole process at once, at
\* whichever prompt (menu choice, yes/no question, "Press Enter...") or
\* operation it arrives: when the last thing the operator did is a Ctrl-C, the
\* console process has ended.
C13_InterruptEndsProcess ==
  ui_input = Interrupt => ui_pc \in {"exited", "crashed"}

\* C19: the console prints "Upload successful!" only when the upload it
\* started succeeded, that is when upload_backup_to_github returned True in the
\* child process; when it returned False the console prints "Upload failed".
C19_SuccessMessageMeansSuccess ==
  /\ ui_message = UploadMessage(0) => (up_pc = "done" /\ up_result)
  /\ (ui_pc = "enter" /\ ui_message \in {UploadMessage(0), UploadMessage(1)}
        /\ up_pc = "done" /\ ~up_result)
     => ui_message = UploadMessage(1)

====
